---- MODULE Spec2Model ----
(***************************************************************************)
(* deploy-setup: the Detector, the Collector with its review loop, the     *)
(* user-global store and the tail of runInit, as a state machine.          *)
(*                                                                         *)
(* Text that the code validates, trims or splits (project name, host,      *)
(* profile label, domain name, env-file lines) is a sequence of one-       *)
(* character strings; text the code only carries around is a string, with  *)
(* "" the empty answer.  null is the string "null".                        *)
(***************************************************************************)
EXTENDS Integers, Sequences, FiniteSets, TLC

VARIABLES
    pc,         \* position of the invocation (runInit / collectConfig / reviewLoop)
    dir,        \* the project directory the invocation runs in
    detection,  \* DetectionResult of runInit
    config,     \* the CollectedConfig being assembled / reviewed
    choice,     \* collectServerConfig: value of the server list prompt, NoChoice outside
    picked,     \* which entry of the server list the operator picked: "saved", "new", "none"
    store,      \* the user-global store file: [servers, projects]
    cache,      \* the per-project cache file: <<>> when absent, <<config>> otherwise
    generated,  \* the generated-files list of this run (paths, in order)
    action,     \* reviewLoop: the action picked at the latest review prompt, "none" before
    added,      \* label -> the profile saveServer last wrote under it in this invocation
    caller,     \* who runs the current collect step: "collectConfig" or "reviewLoop"
    path,       \* the collector states entered up to the first review, in order
    collected,  \* per section, the result of its most recent collect step
    command,    \* the CLI command of the invocation
    files,      \* the files of the project directory the tool writes or reads: path -> content
    written,    \* generateFiles: the entries [path, backedUp] returned so far
    trace,      \* the steps started and the external programs and services called, in order
                \* (StoreSpec: the steps on the store file, <<invocation, step, update>>)
    outcome,    \* what the latest external call came back with: [call, event, code]
    polls,      \* runPushAndVerify: the status queries made so far
    report,     \* runPushAndVerify: what the verification reported, "none" before
    invocations, \* invocations sharing the store file: id -> [pc, todo, config, done]
    storeText   \* the text of the store file: "json" (it parses as store), "empty", "garbled"

\* the variables only the Generator's files, the pipeline steps after init and the other
\* invocations on the same store file change
pipelineVars ==
    <<command, files, written, trace, outcome, polls, report, invocations, storeText>>

vars ==
    <<pc, dir, detection, config, choice, picked, store, cache, generated, action, added, caller,
      path, collected, command, files, written, trace, outcome, polls, report, invocations,
      storeText>>

----------------------------------------------------------------------------
(* Text helpers *)

IsSpace(c) == c \in {" ", "\t"}

RECURSIVE TrimLeft(_)
TrimLeft(s) == IF s # <<>> /\ IsSpace(Head(s)) THEN TrimLeft(Tail(s)) ELSE s

RECURSIVE TrimRight(_)
TrimRight(s) ==
    IF s # <<>> /\ IsSpace(s[Len(s)]) THEN TrimRight(SubSeq(s, 1, Len(s) - 1)) ELSE s

\* String.prototype.trim
Trim(s) == TrimRight(TrimLeft(s))

LowerChars == {"a", "b", "c", "d", "e", "h", "i", "k", "n", "o", "p", "r", "s", "t", "w", "y",
               "0", "1", "2", "3", "4", "5", "6", "7", "8", "9", "-"}

\* /^[a-z0-9-]+$/.test(v)
validateName(v) == v # <<>> /\ \A i \in 1..Len(v) : v[i] \in LowerChars

\* mutant: the validator is missing
validateAnything(v) == TRUE

\* v.trim().length > 0
validateNonEmpty(v) == Len(Trim(v)) > 0

\* inquirer input prompt: an empty answer yields the prompt's default
inputDefault(answer, default) == IF answer = "" THEN default ELSE answer

inputDefaultText(answer, default) == IF answer = <<>> THEN default ELSE answer

\* inquirer number prompt: an empty answer yields the default, a number is taken as typed
numberDefault(answer, default) == IF answer = <<>> THEN default ELSE answer[1]

----------------------------------------------------------------------------
(* types.ts *)

ProjectType == {"flask", "django", "fastapi", "nestjs", "nextjs", "nuxtjs", "vue-spa", "react-spa"}

PROJECT_DEFAULTS ==
    [t \in ProjectType |->
        CASE t = "flask" ->
               [port |-> 5000, buildCmd |-> "",
                startCmd |-> "gunicorn -w 4 -b 0.0.0.0:5000 app:app", entryFile |-> "app.py"]
          [] t = "django" ->
               [port |-> 8000, buildCmd |-> "python manage.py collectstatic --noinput",
                startCmd |-> "gunicorn -w 4 -b 0.0.0.0:8000 config.wsgi:application",
                entryFile |-> "manage.py"]
          [] t = "fastapi" ->
               [port |-> 8000, buildCmd |-> "",
                startCmd |-> "uvicorn main:app --host 0.0.0.0 --port 8000", entryFile |-> "main.py"]
          [] t = "nestjs" ->
               [port |-> 3000, buildCmd |-> "npm run build",
                startCmd |-> "node dist/main", entryFile |-> "src/main.ts"]
          [] t = "nextjs" ->
               [port |-> 3000, buildCmd |-> "npm run build",
                startCmd |-> "npm start", entryFile |-> "pages/index.tsx"]
          [] t = "nuxtjs" ->
               [port |-> 3000, buildCmd |-> "npm run build",
                startCmd |-> "node .output/server/index.mjs", entryFile |-> "nuxt.config.ts"]
          [] t = "vue-spa" ->
               [port |-> 80, buildCmd |-> "npm run build",
                startCmd |-> "", entryFile |-> "src/main.ts"]
          [] t = "react-spa" ->
               [port |-> 80, buildCmd |-> "npm run build",
                startCmd |-> "", entryFile |-> "src/index.tsx"]]

----------------------------------------------------------------------------
(* detector.ts.  A directory is a record:                                  *)
(*   listing   the top-level entries in readdir order                      *)
(*   manifest  file name -> the words of requirements.txt / pyproject.toml *)
(*   deps      the packages of dependencies and devDependencies            *)
(*   runPy     "absent", "plain" or "factory" (run.py contains create_app) *)
(*   sources   candidate source file -> per port pattern, the number it    *)
(*             captures there, NoMatch when it does not match; a file not  *)
(*             in the domain is absent or matches no pattern               *)
(*   env       env file name -> its lines                                  *)
(*   workflows whether .github/workflows exists                            *)
(*   cached    whether an earlier init left its cache in the directory     *)
(*   base      the directory's base name                                   *)

NoMatch == -1

Includes(seq, x) == \E i \in 1..Len(seq) : seq[i] = x

\* toLowerCase of a manifest word
ToLower(w) ==
    CASE w = "Flask==2.3" -> "flask==2.3"
      [] w = "Django>=4" -> "django>=4"
      [] w = "FastAPI" -> "fastapi"
      [] OTHER -> w

\* String.prototype.includes on a lowercased manifest word
WordIncludes(w, kw) ==
    CASE kw = "flask" -> w \in {"flask", "flask==2.3", "flask-cors", "django-flask"}
      [] kw = "django" -> w \in {"django", "django>=4", "django-flask"}
      [] kw = "fastapi" -> w \in {"fastapi"}
      [] OTHER -> FALSE

DepsInclude(words, kw) == \E w \in words : WordIncludes(ToLower(w), kw)

\* mutant: the file names are looked at before the manifest content
detectPythonFrameworkFilesFirst(d) ==
    LET deps == IF Includes(d.listing, "requirements.txt") THEN d.manifest["requirements.txt"]
                ELSE IF Includes(d.listing, "pyproject.toml") THEN d.manifest["pyproject.toml"]
                ELSE {}
    IN  IF Includes(d.listing, "manage.py") THEN "django"
        ELSE IF Includes(d.listing, "app.py") THEN "flask"
        ELSE IF Includes(d.listing, "main.py") THEN "fastapi"
        ELSE IF DepsInclude(deps, "fastapi") THEN "fastapi"
        ELSE IF DepsInclude(deps, "django") THEN "django"
        ELSE IF DepsInclude(deps, "flask") THEN "flask"
        ELSE "null"

detectPythonFramework(d) ==
    LET deps == IF Includes(d.listing, "requirements.txt") THEN d.manifest["requirements.txt"]
                ELSE IF Includes(d.listing, "pyproject.toml") THEN d.manifest["pyproject.toml"]
                ELSE {}
    IN  IF DepsInclude(deps, "fastapi") THEN "fastapi"
        ELSE IF DepsInclude(deps, "django") THEN "django"
        ELSE IF DepsInclude(deps, "flask") THEN "flask"
        ELSE IF Includes(d.listing, "manage.py") THEN "django"
        ELSE IF Includes(d.listing, "app.py") THEN "flask"
        ELSE IF Includes(d.listing, "main.py") THEN "fastapi"
        ELSE "null"

\* mutant: the SPA rules come before the framework rules
detectNodeFrameworkSpaFirst(d) ==
    IF ~Includes(d.listing, "package.json") THEN "null"
    ELSE IF "vue" \in d.deps THEN "vue-spa"
    ELSE IF "react" \in d.deps THEN "react-spa"
    ELSE IF "@nestjs/core" \in d.deps THEN "nestjs"
    ELSE IF "next" \in d.deps THEN "nextjs"
    ELSE IF "nuxt" \in d.deps \/ "nuxt3" \in d.deps THEN "nuxtjs"
    ELSE "null"

detectNodeFramework(d) ==
    IF ~Includes(d.listing, "package.json") THEN "null"
    ELSE IF "@nestjs/core" \in d.deps THEN "nestjs"
    ELSE IF "next" \in d.deps THEN "nextjs"
    ELSE IF "nuxt" \in d.deps \/ "nuxt3" \in d.deps THEN "nuxtjs"
    ELSE IF "vue" \in d.deps /\ "nuxt" \notin d.deps THEN "vue-spa"
    ELSE IF "react" \in d.deps /\ "next" \notin d.deps THEN "react-spa"
    ELSE "null"

PortCandidates(language) ==
    IF language = "python" THEN <<"app.py", "main.py", "manage.py", "config.py", "settings.py">>
    ELSE IF language = "node" THEN <<"src/main.ts", "src/index.ts", "server.js", "index.js", "app.js">>
    ELSE <<>>

\* the first pattern, in order, that matches the file's content
FirstPattern(m) ==
    IF \E k \in 1..Len(m) : m[k] # NoMatch
    THEN m[CHOOSE k \in 1..Len(m) : m[k] # NoMatch /\ \A j \in 1..(k - 1) : m[j] = NoMatch]
    ELSE NoMatch

\* mutant: every candidate file is scanned and the last match is kept
detectPortLastFile(d, language) ==
    LET cand == PortCandidates(language)
        hit(i) == cand[i] \in DOMAIN d.sources /\ FirstPattern(d.sources[cand[i]]) # NoMatch
    IN  IF \E i \in 1..Len(cand) : hit(i)
        THEN FirstPattern(d.sources[cand[CHOOSE i \in 1..Len(cand) :
                                            hit(i) /\ \A j \in (i + 1)..Len(cand) : ~hit(j)]])
        ELSE NoMatch

\* null is NoMatch
detectPort(d, language) ==
    LET cand == PortCandidates(language)
        hit(i) == cand[i] \in DOMAIN d.sources /\ FirstPattern(d.sources[cand[i]]) # NoMatch
    IN  IF \E i \in 1..Len(cand) : hit(i)
        THEN FirstPattern(d.sources[cand[CHOOSE i \in 1..Len(cand) :
                                            hit(i) /\ \A j \in 1..(i - 1) : ~hit(j)]])
        ELSE NoMatch

IndexOf(line, c) ==
    IF \E i \in 1..Len(line) : line[i] = c
    THEN CHOOSE i \in 1..Len(line) : line[i] = c /\ \A j \in 1..(i - 1) : line[j] # c
    ELSE 0

RECURSIVE parseEnvKeys(_)
parseEnvKeys(lines) ==
    IF lines = <<>> THEN <<>>
    ELSE LET line == Head(lines)
             keep == Trim(line) # <<>> /\ Head(line) # "#" /\ IndexOf(line, "=") > 0
         IN  IF keep
             THEN <<Trim(SubSeq(line, 1, IndexOf(line, "=") - 1))>> \o parseEnvKeys(Tail(lines))
             ELSE parseEnvKeys(Tail(lines))

EnvNames == {".env", ".env.example", ".env.production"}

\* files.find(f => f === '.env' || ...): the first entry of the listing that is an env file
FindEnvFile(listing) ==
    IF \E i \in 1..Len(listing) : listing[i] \in EnvNames
    THEN listing[CHOOSE i \in 1..Len(listing) :
                    listing[i] \in EnvNames /\ \A j \in 1..(i - 1) : listing[j] \notin EnvNames]
    ELSE "null"

FlaskFactoryStart(startCmd) ==
    IF startCmd = "gunicorn -w 4 -b 0.0.0.0:5000 app:app"
    THEN "gunicorn -w 4 -b 0.0.0.0:5000 run:app"
    ELSE startCmd

detectProject(d) ==
    LET envFile == FindEnvFile(d.listing)
        envKeys == IF envFile # "null" THEN parseEnvKeys(d.env[envFile]) ELSE <<>>
        isPython == Includes(d.listing, "requirements.txt") \/ Includes(d.listing, "pyproject.toml")
                    \/ Includes(d.listing, "Pipfile")
        isNode == ~isPython /\ Includes(d.listing, "package.json")
        language == IF isPython THEN "python" ELSE IF isNode THEN "node" ELSE "null"
        type == IF isPython THEN detectPythonFramework(d)
                ELSE IF isNode THEN detectNodeFramework(d) ELSE "null"
        factory == type = "flask" /\ d.runPy = "factory"
        base == IF type # "null"
                THEN [port |-> PROJECT_DEFAULTS[type].port,
                      buildCmd |-> PROJECT_DEFAULTS[type].buildCmd,
                      startCmd |-> IF factory THEN FlaskFactoryStart(PROJECT_DEFAULTS[type].startCmd)
                                   ELSE PROJECT_DEFAULTS[type].startCmd,
                      entryFile |-> IF factory THEN "run.py" ELSE PROJECT_DEFAULTS[type].entryFile]
                ELSE [port |-> 3000, buildCmd |-> "", startCmd |-> "", entryFile |-> ""]
        detectedPort == detectPort(d, language)
    IN  [type |-> type,
         language |-> language,
         languageVersion |-> IF isPython THEN "3.11" ELSE IF isNode THEN "20" ELSE "",
         port |-> IF detectedPort # NoMatch /\ detectedPort # 0 THEN detectedPort ELSE base.port,
         buildCmd |-> base.buildCmd,
         startCmd |-> base.startCmd,
         entryFile |-> base.entryFile,
         envFile |-> envFile,
         envKeys |-> envKeys,
         hasDocker |-> Includes(d.listing, "Dockerfile"),
         hasCI |-> d.workflows]

----------------------------------------------------------------------------
(* config-store.ts: the store file holds [servers, projects]; both are     *)
(* functions from the names present to their entries.                      *)

loadGlobalConfig(st) == st

saveGlobalConfig(c) == c

getSavedServers(st) == loadGlobalConfig(st).servers

\* mutant: duplicate-name protection, an existing label keeps its profile
saveServerKeepExisting(st, name, server) ==
    IF name \in DOMAIN st.servers THEN st
    ELSE [st EXCEPT !.servers = [l \in DOMAIN st.servers \cup {name} |->
                                    IF l = name THEN server ELSE st.servers[l]]]

saveServer(st, name, server) ==
    LET cfg == loadGlobalConfig(st)
    IN  saveGlobalConfig(
            [cfg EXCEPT !.servers = [l \in DOMAIN cfg.servers \cup {name} |->
                                        IF l = name THEN server ELSE cfg.servers[l]]])

\* mutant: the log written holds the record of this project only
saveProjectRecordAlone(st, name, type, now) ==
    [st EXCEPT !.projects = [n \in {name} |-> [type |-> type, lastDeploy |-> now]]]

saveProjectRecord(st, name, type, now) ==
    LET cfg == loadGlobalConfig(st)
    IN  saveGlobalConfig(
            [cfg EXCEPT !.projects = [n \in DOMAIN cfg.projects \cup {name} |->
                                         IF n = name THEN [type |-> type, lastDeploy |-> now]
                                         ELSE cfg.projects[n]]])

\* the store file without any entry (a missing file loads as this, lines 17-19)
EmptyStore == [servers |-> <<>>, projects |-> <<>>]

\* mutant: the object written is the file as it stands at the write
configWrittenReread(loaded, current) == current

\* saveServer line 33 -> 35, saveProjectRecord line 39 -> 41: the object written is the one
\* the load at the first line returned, whatever the file (current) holds by then
configWritten(loaded, current) == loaded

\* mutant: the update starts from an empty object instead of the loaded one
applyUpdateFresh(loaded, u) ==
    IF u.op = "saveServer" THEN saveServer(EmptyStore, u.name, u.server)
    ELSE saveProjectRecord(EmptyStore, u.name, u.type, "now")

\* the text one update writes, given the object its load returned (u: [op, name, server, type])
applyUpdate(loaded, u) ==
    IF u.op = "saveServer" THEN saveServer(loaded, u.name, u.server)
    ELSE saveProjectRecord(loaded, u.name, u.type, "now")

----------------------------------------------------------------------------
(* cli.ts, runInit: the project name offered to the Collector *)

LowerChar(c) ==
    CASE c = "A" -> "a"
      [] c = "B" -> "b"
      [] c = "W" -> "w"
      [] OTHER -> c

\* path.basename(projectDir).toLowerCase().replace(/[^a-z0-9-]/g, '-')
projectNameOf(base) ==
    [i \in 1..Len(base) |-> IF LowerChar(base[i]) \in LowerChars THEN LowerChar(base[i]) ELSE "-"]

----------------------------------------------------------------------------
(* collector.ts *)

ADD_NEW == <<"_", "_", "n", "e", "w", "_", "_">>

NoChoice == <<>>

\* answers: [name, type, port, buildCmd, startCmd] as typed ("default" = Enter on the list)
collectProjectConfig(det, projectName, a) ==
    LET type == IF a.type = "default"
                THEN (IF det.type \in ProjectType THEN det.type ELSE "flask")
                ELSE a.type
    IN  [name |-> inputDefaultText(a.name, projectName),
         type |-> type,
         port |-> numberDefault(a.port, det.port),
         buildCmd |-> inputDefault(a.buildCmd, det.buildCmd),
         startCmd |-> inputDefault(a.startCmd, det.startCmd),
         language |-> IF type \in {"flask", "django", "fastapi"} THEN "python" ELSE "node"]

\* the entries of the server list prompt: <<kind, value>>
ServerEntries(saved) == {<<"saved", l>> : l \in DOMAIN saved} \cup {<<"new", ADD_NEW>>}

\* the questions collectServerConfig asks once the list prompt (if any) returned ch
ServerQuestions(saved, ch) ==
    IF DOMAIN saved # {} /\ ch # ADD_NEW
    THEN <<"deployDir">>
    ELSE <<"host", "user", "sshKeyPath", "deployDir", "saveName">>

\* mutant: the new profile is not written during the step (persistence deferred)
collectServerConfigDeferred(st, ch, a) ==
    LET saved == st.servers
    IN  IF DOMAIN saved # {} /\ ch # ADD_NEW
        THEN [server |-> [saved[ch] EXCEPT !.deployDir = inputDefault(a.deployDir, saved[ch].deployDir)],
              store |-> st, saved |-> <<>>]
        ELSE LET answers == [host |-> a.host,
                             user |-> inputDefault(a.user, "root"),
                             sshKeyPath |-> inputDefault(a.sshKeyPath, "~/.ssh/id_rsa"),
                             deployDir |-> inputDefault(a.deployDir, "/opt/apps")]
             IN  [server |-> answers, store |-> st,
                  saved |-> <<inputDefaultText(a.saveName, answers.host)>>]

\* a: [host, user, sshKeyPath, deployDir, saveName] as typed; only the questions asked are read.
\* Returns the server, the store afterwards and the label saved under (<<>> when none).
collectServerConfig(st, ch, a) ==
    LET saved == getSavedServers(st)
    IN  IF DOMAIN saved # {} /\ ch # ADD_NEW
        THEN [server |-> [saved[ch] EXCEPT !.deployDir = inputDefault(a.deployDir, saved[ch].deployDir)],
              store |-> st, saved |-> <<>>]
        ELSE LET answers == [host |-> a.host,
                             user |-> inputDefault(a.user, "root"),
                             sshKeyPath |-> inputDefault(a.sshKeyPath, "~/.ssh/id_rsa"),
                             deployDir |-> inputDefault(a.deployDir, "/opt/apps")]
                 saveName == inputDefaultText(a.saveName, answers.host)
             IN  [server |-> answers, store |-> saveServer(st, saveName, answers),
                  saved |-> <<saveName>>]

\* a: [enabled, name, https]
collectDomainConfig(a) ==
    IF ~a.enabled
    THEN [enabled |-> FALSE, name |-> <<>>, https |-> FALSE]
    ELSE [enabled |-> a.enabled, name |-> a.name, https |-> a.https]

RECURSIVE Checked(_, _, _)
Checked(keys, boxes, i) ==
    IF i > Len(keys) THEN <<>>
    ELSE (IF i \in boxes THEN <<keys[i]>> ELSE <<>>) \o Checked(keys, boxes, i + 1)

\* boxes: the positions of the checkbox prompt the operator leaves checked
collectSecrets(envKeys, boxes) ==
    IF Len(envKeys) = 0 THEN <<>> ELSE Checked(envKeys, boxes, 1)

\* a: [production, hasStaging, staging]
collectBranchConfig(a) ==
    [production |-> inputDefault(a.production, "main"),
     staging |-> IF a.hasStaging THEN inputDefault(a.staging, "develop") ELSE "null"]

\* mutant: the server edit rebuilds the config and loses the domain section
reviewAssignRebuilds(cfg, act, result) ==
    IF act = "project" THEN [cfg EXCEPT !.project = result]
    ELSE IF act = "server"
    THEN [cfg EXCEPT !.server = result,
                     !.domain = [enabled |-> FALSE, name |-> <<>>, https |-> FALSE]]
    ELSE IF act = "domain" THEN [cfg EXCEPT !.domain = result]
    ELSE cfg

\* mutant: the project edit re-derives the secrets and branches from scratch
reviewAssignDropsSecrets(cfg, act, result) ==
    IF act = "project"
    THEN [cfg EXCEPT !.project = result, !.secrets = <<>>,
                     !.branches = [production |-> "main", staging |-> "null"]]
    ELSE IF act = "server" THEN [cfg EXCEPT !.server = result]
    ELSE IF act = "domain" THEN [cfg EXCEPT !.domain = result]
    ELSE cfg

\* reviewLoop, lines 272-279: the section an edit action assigns
reviewAssign(cfg, act, result) ==
    IF act = "project" THEN [cfg EXCEPT !.project = result]
    ELSE IF act = "server" THEN [cfg EXCEPT !.server = result]
    ELSE IF act = "domain" THEN [cfg EXCEPT !.domain = result]
    ELSE cfg

\* mutant: cancel does not exit and falls through to the caller
reviewNextCancelReturns(act) ==
    IF act = "confirm" \/ act = "cancel" THEN "generate"
    ELSE IF act = "project" THEN "collect-project"
    ELSE IF act = "server" THEN "collect-server"
    ELSE IF act = "domain" THEN "collect-domain"
    ELSE "review"

\* reviewLoop, lines 266-279: where the chosen action leads
reviewNext(act) ==
    IF act = "confirm" THEN "generate"
    ELSE IF act = "cancel" THEN "exited"
    ELSE IF act = "project" THEN "collect-project"
    ELSE IF act = "server" THEN "collect-server"
    ELSE IF act = "domain" THEN "collect-domain"
    ELSE "review"

ReviewActions == {"confirm", "project", "server", "domain", "cancel"}

----------------------------------------------------------------------------
(* The directories, stores and operator answers the model draws from *)

HostA == <<"1", "0", ".", "1">>

DomainA == <<"a", ".", "i", "o">>

NoFiles == [f \in {} |-> <<>>]

DirEmpty ==
    [base |-> <<"w", "e", "b">>, listing |-> <<>>, manifest |-> NoFiles, deps |-> {},
     runPy |-> "absent", sources |-> NoFiles, env |-> NoFiles, workflows |-> FALSE,
     cached |-> FALSE]

DirFlask ==
    [base |-> <<"A", "_", "b">>,
     listing |-> <<".env", "app.py", "requirements.txt">>,
     manifest |-> [f \in {"requirements.txt"} |-> {"Flask==2.3"}],
     deps |-> {},
     runPy |-> "absent",
     sources |-> [f \in {"app.py"} |-> <<6000, NoMatch, NoMatch>>],
     env |-> [f \in {".env"} |-> << <<"K", "=", "1">>, <<"#", "x">>, <<>> >>],
     workflows |-> FALSE,
     cached |-> FALSE]

DirNext ==
    [base |-> <<"w", "e", "b">>, listing |-> <<"package.json">>, manifest |-> NoFiles,
     deps |-> {"next", "react"}, runPy |-> "absent", sources |-> NoFiles, env |-> NoFiles,
     workflows |-> TRUE, cached |-> TRUE]

Dirs == {DirEmpty, DirFlask, DirNext}

\* the largest number the operator types at the port prompt
MaxTypedPort == 0

ProjectAnswers ==
    [name : {<<>>, <<"A", "_", "b">>},
     type : ProjectType \cup {"default"},
     port : {<<>>} \cup {<<n>> : n \in 0..MaxTypedPort},
     buildCmd : {""},
     startCmd : {"", "./run.sh"}]

ServerAnswers ==
    [host : {<<>>, <<" ">>, HostA},
     user : {""},
     sshKeyPath : {""},
     deployDir : {"", "/srv/www"},
     saveName : {<<>>, ADD_NEW}]

DomainAnswers == [enabled : BOOLEAN, name : {<<>>, <<" ">>, DomainA}, https : BOOLEAN]

BranchAnswers == [production : {""}, hasStaging : BOOLEAN, staging : {""}]

\* the profiles earlier invocations can have saved, and the labels they saved them under
SavedProfiles ==
    [host : {HostA}, user : {"root"}, sshKeyPath : {"~/.ssh/id_rsa"},
     deployDir : {"/opt/apps", "/srv/www"}]

SavedLabels == {HostA, ADD_NEW}

SavedServers == UNION {[L -> SavedProfiles] : L \in SUBSET SavedLabels}

NoProject ==
    [name |-> <<>>, type |-> "null", port |-> 0, buildCmd |-> "", startCmd |-> "", language |-> "null"]

NoServer == [host |-> <<>>, user |-> "", sshKeyPath |-> "", deployDir |-> ""]

NoDomain == [enabled |-> FALSE, name |-> <<>>, https |-> FALSE]

NoBranches == [production |-> "", staging |-> "null"]

NoConfig ==
    [project |-> NoProject, server |-> NoServer, domain |-> NoDomain, secrets |-> <<>>,
     branches |-> NoBranches, registry |-> ""]

NoOutcome == [call |-> "none", event |-> "none", code |-> 0]

\* no other invocation shares the store file
NoInvocations == <<>>

NoDetection ==
    [type |-> "null", language |-> "null", languageVersion |-> "", port |-> 0, buildCmd |-> "",
     startCmd |-> "", entryFile |-> "", envFile |-> "null", envKeys |-> <<>>,
     hasDocker |-> FALSE, hasCI |-> FALSE]

\* the cache an earlier init of the same directory left behind
EarlierConfig(d) ==
    [project |-> [name |-> projectNameOf(d.base), type |-> "nestjs", port |-> 3000,
                  buildCmd |-> "npm run build", startCmd |-> "node dist/main", language |-> "node"],
     server |-> [host |-> HostA, user |-> "root", sshKeyPath |-> "~/.ssh/id_rsa",
                 deployDir |-> "/opt/apps"],
     domain |-> NoDomain, secrets |-> <<>>,
     branches |-> [production |-> "main", staging |-> "null"],
     registry |-> "ghcr.io"]

\* the project log earlier inits left: one of this directory and one of another project
EarlierProjects(d) ==
    [n \in {projectNameOf(d.base), projectNameOf(DirFlask.base)} |->
        IF n = projectNameOf(d.base) THEN [type |-> "nestjs", lastDeploy |-> "earlier"]
        ELSE [type |-> "flask", lastDeploy |-> "earlier"]]

InitialCache(d) == IF d.cached THEN <<EarlierConfig(d)>> ELSE <<>>

InitialProjects(d) == IF d.cached THEN EarlierProjects(d) ELSE NoFiles

----------------------------------------------------------------------------
(* The invocation: deploy-setup init, interactive *)

Init ==
    /\ pc = "detect"
    /\ dir \in Dirs
    /\ detection = NoDetection
    /\ config = NoConfig
    /\ choice = NoChoice
    /\ picked = "none"
    /\ \E servers \in SavedServers :
          store = [servers |-> servers, projects |-> InitialProjects(dir)]
    /\ cache = InitialCache(dir)
    /\ generated = <<>>
    /\ action = "none"
    /\ added = NoFiles
    /\ caller = "collectConfig"
    /\ path = <<>>
    /\ collected = NoConfig
    /\ command = "init"
    /\ files = NoFiles
    /\ written = <<>>
    /\ trace = <<>>
    /\ outcome = NoOutcome
    /\ polls = 0
    /\ report = "none"
    /\ invocations = NoInvocations
    /\ storeText = "json"

\* runInit, lines 99-117: detect, then enter collectConfig
Detect ==
    /\ pc = "detect"
    /\ UNCHANGED pipelineVars
    /\ detection' = detectProject(dir)
    /\ pc' = "collect-project"
    /\ path' = <<"collect-project">>
    /\ UNCHANGED <<dir, config, choice, picked, store, cache, generated, action, added, caller, collected>>

\* mutant: the secrets are collected before the domain
collectNextSecretsFirst(section) ==
    CASE section = "project" -> "collect-server"
      [] section = "server" -> "collect-secrets"
      [] section = "secrets" -> "collect-domain"
      [] section = "domain" -> "collect-branches"
      [] section = "branches" -> "review"

\* collectConfig, lines 20-35: the state that follows a collect step
collectNext(section) ==
    CASE section = "project" -> "collect-server"
      [] section = "server" -> "collect-domain"
      [] section = "domain" -> "collect-secrets"
      [] section = "secrets" -> "collect-branches"
      [] section = "branches" -> "review"

\* a collect step returns result for section: to collectConfig, which goes on to the next
\* step (and builds the config, with the registry, before the review), or to reviewLoop,
\* which assigns the section and shows the review again
Return(section, result) ==
    /\ IF caller = "collectConfig"
       THEN /\ config' = [[config EXCEPT ![section] = result]
                             EXCEPT !.registry = IF section = "branches" THEN "ghcr.io" ELSE @]
            /\ pc' = collectNext(section)
            /\ path' = Append(path, collectNext(section))
            /\ caller' = IF section = "branches" THEN "reviewLoop" ELSE caller
       ELSE /\ config' = reviewAssign(config, section, result)
            /\ pc' = "review"
            /\ UNCHANGED <<path, caller>>
    /\ collected' = [collected EXCEPT ![section] = result]

CollectProject ==
    /\ pc = "collect-project"
    /\ UNCHANGED pipelineVars
    /\ \E a \in ProjectAnswers :
          LET projectName == IF caller = "collectConfig" THEN projectNameOf(dir.base)
                             ELSE config.project.name
          IN  /\ validateName(inputDefaultText(a.name, projectName))
              /\ Return("project", collectProjectConfig(detection, projectName, a))
    /\ UNCHANGED <<dir, detection, choice, picked, store, cache, generated, action, added>>

\* collectServerConfig, lines 83-100: the list prompt, skipped when nothing is saved
CollectServerChoice ==
    /\ pc = "collect-server"
    /\ UNCHANGED pipelineVars
    /\ choice = NoChoice
    /\ LET saved == getSavedServers(store)
       IN  IF DOMAIN saved # {}
           THEN \E e \in ServerEntries(saved) : picked' = e[1] /\ choice' = e[2]
           ELSE picked' = "new" /\ choice' = ADD_NEW
    /\ UNCHANGED <<pc, dir, detection, config, store, cache, generated, action, added, caller,
                   path, collected>>

\* collectServerConfig, lines 102-152: the questions, the save and the return
CollectServerAnswer ==
    /\ pc = "collect-server"
    /\ UNCHANGED pipelineVars
    /\ choice # NoChoice
    /\ \E a \in ServerAnswers :
          LET asked == ServerQuestions(getSavedServers(store), choice)
              r == collectServerConfig(store, choice, a)
          IN  /\ Includes(asked, "host") => validateNonEmpty(a.host)
              /\ store' = r.store
              /\ added' = IF r.saved = <<>> THEN added
                          ELSE [l \in DOMAIN added \cup {r.saved[1]} |->
                                   IF l = r.saved[1] THEN r.server ELSE added[l]]
              /\ Return("server", r.server)
    /\ choice' = NoChoice
    /\ picked' = "none"
    /\ UNCHANGED <<dir, detection, cache, generated, action>>

CollectDomain ==
    /\ pc = "collect-domain"
    /\ UNCHANGED pipelineVars
    /\ \E a \in DomainAnswers :
          /\ a.enabled => validateNonEmpty(a.name)
          /\ Return("domain", collectDomainConfig(a))
    /\ UNCHANGED <<dir, detection, choice, picked, store, cache, generated, action, added>>

CollectSecrets ==
    /\ pc = "collect-secrets"
    /\ UNCHANGED pipelineVars
    /\ \E boxes \in SUBSET (1..Len(detection.envKeys)) :
          Return("secrets", collectSecrets(detection.envKeys, boxes))
    /\ UNCHANGED <<dir, detection, choice, picked, store, cache, generated, action, added>>

CollectBranches ==
    /\ pc = "collect-branches"
    /\ UNCHANGED pipelineVars
    /\ \E a \in BranchAnswers : Return("branches", collectBranchConfig(a))
    /\ UNCHANGED <<dir, detection, choice, picked, store, cache, generated, action, added>>

\* reviewLoop, lines 253-279: the operator picks one of the five actions
Review ==
    /\ pc = "review"
    /\ UNCHANGED pipelineVars
    /\ \E a \in ReviewActions : action' = a /\ pc' = reviewNext(a)
    /\ UNCHANGED <<dir, detection, config, choice, picked, store, cache, generated, added, caller,
                   path, collected>>

\* generator.ts, generateFiles: the paths written, in order
generateFiles(cfg) ==
    <<"Dockerfile", ".dockerignore", "docker-compose.yml", ".github/workflows/deploy.yml">>
    \o (IF cfg.project.type \in {"vue-spa", "react-spa"} THEN <<"nginx.conf">> ELSE <<>>)
    \o <<"server-init.sh">>

\* runInit, line 121
Generate ==
    /\ pc = "generate"
    /\ UNCHANGED pipelineVars
    /\ generated' = generateFiles(config)
    /\ pc' = "save-record"
    /\ UNCHANGED <<dir, detection, config, choice, picked, store, cache, action, added, caller,
                   path, collected>>

\* runInit, line 123
SaveRecord ==
    /\ pc = "save-record"
    /\ UNCHANGED pipelineVars
    /\ store' = saveProjectRecord(store, config.project.name, config.project.type, "now")
    /\ pc' = "save-cache"
    /\ UNCHANGED <<dir, detection, config, choice, picked, cache, generated, action, added,
                   caller, path, collected>>

\* runInit, lines 124-126
SaveCache ==
    /\ pc = "save-cache"
    /\ UNCHANGED pipelineVars
    /\ cache' = <<config>>
    /\ pc' = "done"
    /\ UNCHANGED <<dir, detection, config, choice, picked, store, generated, action, added,
                   caller, path, collected>>

Next ==
    \/ Detect
    \/ CollectProject
    \/ CollectServerChoice
    \/ CollectServerAnswer
    \/ CollectDomain
    \/ CollectSecrets
    \/ CollectBranches
    \/ Review
    \/ Generate
    \/ SaveRecord
    \/ SaveCache

Spec == Init /\ [][Next]_vars

----------------------------------------------------------------------------
(* generator.ts and utils/template.ts.  A template is a sequence of chunks, *)
(* <<"text", t>> or <<"var", KEY>> for the placeholder {{KEY}}; the text of *)
(* a template file that is not at hand is one chunk.                        *)

\* String(boolean)
BoolString(b) == IF b THEN "true" ELSE "false"

\* startCmd.split(/\s+/).map(p => `"${p}"`).join(', ')
DockerCmd(startCmd) ==
    CASE startCmd = "" -> "\"\""
      [] startCmd = "node dist/main" -> "\"node\", \"dist/main\""
      [] startCmd = "npm start" -> "\"npm\", \"start\""
      [] startCmd = "./run.sh" -> "\"./run.sh\""
      [] startCmd = "gunicorn -w 4 -b 0.0.0.0:5000 app:app" ->
           "\"gunicorn\", \"-w\", \"4\", \"-b\", \"0.0.0.0:5000\", \"app:app\""
      [] OTHER -> startCmd

buildTemplateVars(cfg) ==
    [APP_NAME |-> cfg.project.name,
     APP_PORT |-> ToString(cfg.project.port),
     BUILD_CMD |-> cfg.project.buildCmd,
     START_CMD |-> cfg.project.startCmd,
     START_CMD_DOCKER |-> DockerCmd(cfg.project.startCmd),
     PYTHON_VERSION |-> "3.11",
     NODE_VERSION |-> "20",
     REGISTRY |-> cfg.registry,
     GITHUB_USER |-> "${GITHUB_USER}",
     DEPLOY_DIR |-> cfg.server.deployDir,
     SERVER_HOST |-> cfg.server.host,
     SERVER_USER |-> cfg.server.user,
     BRANCH_PRODUCTION |-> cfg.branches.production,
     DOMAIN_NAME |-> IF cfg.domain.name # <<>> THEN cfg.domain.name
                     ELSE <<"l", "o", "c", "a", "l", "h", "o", "s", "t">>,
     DOMAIN_ENABLED |-> BoolString(cfg.domain.enabled),
     HTTPS_ENABLED |-> BoolString(cfg.domain.https)]

readTemplate(category, name) ==
    CASE category = "dockerfile" /\ name = "spa.Dockerfile" ->
           << <<"text", "FROM node:">>, <<"var", "NODE_VERSION">>,
              <<"text", "-alpine AS builder; RUN ">>, <<"var", "BUILD_CMD">>,
              <<"text", "; FROM nginx:alpine AS production; EXPOSE 80">> >>
      [] category = "dockerfile" /\ name = "node.Dockerfile" ->
           << <<"text", "FROM node:">>, <<"var", "NODE_VERSION">>,
              <<"text", "-alpine AS builder; RUN ">>, <<"var", "BUILD_CMD">>,
              <<"text", "; FROM node:">>, <<"var", "NODE_VERSION">>,
              <<"text", "-alpine AS production; EXPOSE ">>, <<"var", "APP_PORT">>,
              <<"text", "; CMD [">>, <<"var", "START_CMD_DOCKER">>, <<"text", "]">> >>
      [] OTHER -> << <<"text", category \o "/" \o name>> >>

\* result.replace(/\{\{KEY\}\}/g, value) for every key of vars
replacePlaceholders(template, tvars) ==
    [i \in 1..Len(template) |->
        IF template[i][1] = "var" /\ template[i][2] \in DOMAIN tvars
        THEN tvars[template[i][2]]
        ELSE template[i][2]]

getDockerfileTemplate(type) ==
    IF type \in {"flask", "django", "fastapi"} THEN readTemplate("dockerfile", "python.Dockerfile")
    ELSE IF type \in {"vue-spa", "react-spa"} THEN readTemplate("dockerfile", "spa.Dockerfile")
    ELSE readTemplate("dockerfile", "node.Dockerfile")

\* generateFiles, lines 16-61: the template written to each path
TemplateFor(cfg, relativePath) ==
    CASE relativePath = "Dockerfile" -> getDockerfileTemplate(cfg.project.type)
      [] relativePath = ".dockerignore" ->
           readTemplate("dockerignore",
                        IF cfg.project.language = "python" THEN "python.dockerignore"
                        ELSE "node.dockerignore")
      [] relativePath = "docker-compose.yml" -> readTemplate("compose", "default.yml")
      [] relativePath = ".github/workflows/deploy.yml" ->
           readTemplate("workflows", "github-deploy.yml")
      [] relativePath = "nginx.conf" -> readTemplate("nginx", "default.conf")
      [] relativePath = "server-init.sh" -> readTemplate("scripts", "server-init.sh")

\* fs.writeFileSync / fs.copyFileSync: the file at p holds content afterwards
WriteFile(fs, p, content) == [q \in DOMAIN fs \cup {p} |-> IF q = p THEN content ELSE fs[q]]

BackupPath(p) == p \o ".backup"

\* mutant: the file is overwritten first and copied to the backup afterwards
writeTemplateCopyAfter(fs, template, relativePath, tvars) ==
    LET content == replacePlaceholders(template, tvars)
        backedUp == relativePath \in DOMAIN fs
        writtenFs == WriteFile(fs, relativePath, content)
    IN  [files |-> IF backedUp
                   THEN WriteFile(writtenFs, BackupPath(relativePath), writtenFs[relativePath])
                   ELSE writtenFs,
         entry |-> [path |-> relativePath, backedUp |-> backedUp]]

\* fs: the output directory before the call; returns the directory afterwards and the entry
writeTemplate(fs, template, relativePath, tvars) ==
    LET content == replacePlaceholders(template, tvars)
        backedUp == relativePath \in DOMAIN fs
        copied == IF backedUp THEN WriteFile(fs, BackupPath(relativePath), fs[relativePath])
                  ELSE fs
    IN  [files |-> WriteFile(copied, relativePath, content),
         entry |-> [path |-> relativePath, backedUp |-> backedUp]]

----------------------------------------------------------------------------
(* cli.ts: the steps after init (the full pipeline and the standalone      *)
(* commands).  Every step reloads the cache; what the outside world        *)
(* answers (DNS, the server, gh, git) is chosen freely.                    *)

\* mutant: a missing cache file is read as an empty config
loadCacheNeverThrows(c) == FALSE

\* utils/cache.ts, loadCache: throws when the directory holds no cache file
loadCacheThrows(c) == c = <<>>

loadCache(c) == IF c = <<>> THEN NoConfig ELSE c[1]

\* the action of `all`, lines 35-47: the step that follows; a standalone command ends
StepAfter(cmd, step) ==
    IF cmd # "all" THEN "done"
    ELSE CASE step = "check-dns" -> "setup-server"
           [] step = "setup-server" -> "setup-secrets"
           [] step = "setup-secrets" -> "push"
           [] step = "push" -> "poll"
           [] step = "poll" -> "done"

Call(call, event, code) == [call |-> call, event |-> event, code |-> code]

\* dns.resolve4: the A records include the host, do not include it, or the lookup fails
DnsOutcomes ==
    {Call("dns.resolve4", e, 0) : e \in {"includes-host", "other-addresses", "lookup-error"}}

\* mutant: a failed lookup is not caught
checkDnsResultThrows(o) == IF o.event = "lookup-error" THEN "thrown" ELSE "returned"

\* runCheckDns, lines 142-155: how the step ends for a DNS answer
checkDnsResult(o) == "returned"

\* ssh2: the connection errors, exec errors, or the stream closes with the script's exit code
SshOutcomes ==
    {Call("ssh", "error", 0), Call("ssh", "exec-error", 0)}
    \cup {Call("ssh", "close", code) : code \in {0, 1, 127}}

\* mutant: the promise resolves whenever the stream closes
sshExecAnyClose(o) == IF o.event = "close" THEN "resolved" ELSE "rejected"

sshExec(o) == IF o.event = "close" /\ o.code = 0 THEN "resolved" ELSE "rejected"

\* the machine runSetupSecrets runs on: is gh installed, does the install work, is gh logged
\* in, does the login work, does the private key file exist
GhEnvironments ==
    [installed : BOOLEAN, installOk : BOOLEAN, authed : BOOLEAN, loginOk : BOOLEAN,
     keyExists : BOOLEAN]

\* runSetupSecrets, lines 195-214: the programs run, and whether the step goes on
ensureGh(env) ==
    LET version == <<"gh --version">> \o (IF env.installed THEN <<>> ELSE <<"installGhCli">>)
        auth == <<"gh auth status">> \o (IF env.authed THEN <<>> ELSE <<"gh auth login">>)
    IN  IF ~env.installed /\ ~env.installOk
        THEN [calls |-> version, result |-> "thrown", last |-> Call("gh", "install-failed", 1)]
        ELSE IF ~env.authed /\ ~env.loginOk
        THEN [calls |-> version \o auth, result |-> "thrown",
              last |-> Call("gh", "login-failed", 1)]
        ELSE [calls |-> version \o auth, result |-> "ready", last |-> Call("gh", "ready", 0)]

\* runSetupSecrets, lines 218-251: the secrets set
setSecrets(env) ==
    <<"gh secret set SERVER_HOST", "gh secret set SERVER_USER">>
    \o (IF env.keyExists THEN <<"gh secret set SSH_PRIVATE_KEY">> ELSE <<>>)

MaxPolls == 30

\* gh run list --limit 1: the command fails, lists no run, or lists the latest run
PollOutcomes ==
    {Call("gh run list", e, 0) :
        e \in {"error", "no-run", "in_progress", "completed-success", "completed-failure"}}

\* mutant: a failed query is tried again
pollVerdictRetries(o) ==
    CASE o.event = "error" -> "continue"
      [] o.event = "completed-success" -> "success"
      [] o.event = "completed-failure" -> "failure"
      [] OTHER -> "continue"

\* runPushAndVerify, lines 277-299: what one query leads to
pollVerdict(o) ==
    CASE o.event = "error" -> "unavailable"
      [] o.event = "completed-success" -> "success"
      [] o.event = "completed-failure" -> "failure"
      [] OTHER -> "continue"

RECURSIVE writeAll(_, _, _)
\* generateFiles: the directory once the paths from position i on are written
writeAll(fs, cfg, i) ==
    IF i > Len(generateFiles(cfg)) THEN fs
    ELSE LET p == generateFiles(cfg)[i]
         IN  writeAll(writeTemplate(fs, TemplateFor(cfg, p), p, buildTemplateVars(cfg)).files,
                      cfg, i + 1)

Remove(fs, p) == [q \in DOMAIN fs \ {p} |-> fs[q]]

\* the variables of the Collector, which the later steps leave alone
collectorVars ==
    <<dir, detection, config, choice, picked, store, generated, action, added, caller, path,
      collected>>

PipelineCommands == {"all", "check-dns", "setup-server", "setup-secrets"}

\* the configs a run of init can have left in the cache (or a config file can hold)
PipelineConfigs ==
    {[EarlierConfig(DirNext) EXCEPT !.domain = d, !.server.sshKeyPath = k] :
        d \in {NoDomain, [enabled |-> TRUE, name |-> DomainA, https |-> TRUE]},
        k \in {"", "~/.ssh/id_rsa"}}

\* `all` has just run runInit (line 35) with a config file: the files are generated, the
\* project is logged and the cache is written.  A standalone command finds whatever the
\* directory holds: no cache, or a cache with or without the generated server-init.sh.
PipelineInit ==
    /\ command \in PipelineCommands
    /\ dir = DirNext
    /\ detection = detectProject(DirNext)
    /\ choice = NoChoice
    /\ picked = "none"
    /\ action = "none"
    /\ added = NoFiles
    /\ caller = "collectConfig"
    /\ path = <<>>
    /\ collected = NoConfig
    /\ written = <<>>
    /\ trace = <<>>
    /\ outcome = NoOutcome
    /\ polls = 0
    /\ report = "none"
    /\ invocations = NoInvocations
    /\ storeText = "json"
    /\ \E cfg \in PipelineConfigs :
          IF command = "all"
          THEN /\ pc = "check-dns"
               /\ config = cfg
               /\ cache = <<cfg>>
               /\ files = writeAll(NoFiles, cfg, 1)
               /\ generated = generateFiles(cfg)
               /\ store = saveProjectRecord([servers |-> NoFiles, projects |-> NoFiles],
                                            cfg.project.name, cfg.project.type, "now")
          ELSE /\ pc = command
               /\ config = NoConfig
               /\ cache \in {<<>>, <<cfg>>}
               /\ files \in {NoFiles, writeAll(NoFiles, cfg, 1),
                             Remove(writeAll(NoFiles, cfg, 1), "server-init.sh")}
               /\ generated = <<>>
               /\ store = [servers |-> NoFiles, projects |-> NoFiles]

\* runCheckDns, lines 129-156
CheckDns ==
    /\ pc = "check-dns"
    /\ IF loadCacheThrows(cache)
       THEN /\ pc' = "failed"
            /\ trace' = Append(trace, "check-dns")
            /\ UNCHANGED outcome
       ELSE IF ~loadCache(cache).domain.enabled
       THEN /\ pc' = StepAfter(command, "check-dns")
            /\ trace' = Append(trace, "check-dns")
            /\ UNCHANGED outcome
       ELSE \E o \in DnsOutcomes :
               /\ outcome' = o
               /\ trace' = trace \o <<"check-dns", "dns.resolve4">>
               /\ pc' = IF checkDnsResult(o) = "returned" THEN StepAfter(command, "check-dns")
                        ELSE "failed"
    /\ UNCHANGED <<collectorVars, invocations, storeText, cache, command, files, written, polls, report>>

\* runSetupServer, lines 158-189, with sshExec, lines 306-325
SetupServer ==
    /\ pc = "setup-server"
    /\ IF loadCacheThrows(cache) \/ "server-init.sh" \notin DOMAIN files
       THEN /\ pc' = "failed"
            /\ trace' = Append(trace, "setup-server")
            /\ UNCHANGED outcome
       ELSE \E keyExists \in BOOLEAN, o \in SshOutcomes :
               /\ outcome' = o
               /\ trace' = trace \o <<"setup-server">>
                                 \o (IF keyExists THEN <<>> ELSE <<"password prompt">>)
                                 \o <<"ssh.connect">>
               /\ pc' = IF sshExec(o) = "resolved" THEN StepAfter(command, "setup-server")
                        ELSE "failed"
    /\ UNCHANGED <<collectorVars, invocations, storeText, cache, command, files, written, polls, report>>

\* runSetupSecrets, lines 191-254 (no --key option)
SetupSecrets ==
    /\ pc = "setup-secrets"
    /\ IF loadCacheThrows(cache)
       THEN /\ pc' = "failed"
            /\ trace' = Append(trace, "setup-secrets")
            /\ UNCHANGED outcome
       ELSE \E env \in GhEnvironments :
               LET g == ensureGh(env)
                   prompt == IF loadCache(cache).server.sshKeyPath = ""
                             THEN <<"key path prompt">> ELSE <<>>
               IN  /\ outcome' = g.last
                   /\ IF g.result = "thrown"
                      THEN /\ pc' = "failed"
                           /\ trace' = trace \o <<"setup-secrets">> \o g.calls
                      ELSE /\ pc' = StepAfter(command, "setup-secrets")
                           /\ trace' = trace \o <<"setup-secrets">> \o g.calls \o prompt
                                             \o setSecrets(env)
    /\ UNCHANGED <<collectorVars, invocations, storeText, cache, command, files, written, polls, report>>

\* runPushAndVerify, lines 256-274: commit (a failure is caught), push (a failure is thrown)
Push ==
    /\ pc = "push"
    /\ \E o \in {Call("git push", "pushed", 0), Call("git push", "rejected", 1)} :
          /\ outcome' = o
          /\ trace' = trace \o <<"push-and-verify", "git commit", "git push">>
          /\ pc' = IF o.event = "pushed" THEN StepAfter(command, "push") ELSE "failed"
    /\ UNCHANGED <<collectorVars, invocations, storeText, cache, command, files, written, polls, report>>

\* runPushAndVerify, lines 276-301: one turn of the loop
Poll ==
    /\ pc = "poll"
    /\ polls < MaxPolls
    /\ \E o \in PollOutcomes :
          /\ outcome' = o
          /\ polls' = polls + 1
          /\ IF pollVerdict(o) = "continue"
             THEN UNCHANGED <<pc, report>>
             ELSE report' = pollVerdict(o) /\ pc' = StepAfter(command, "poll")
    /\ UNCHANGED <<collectorVars, invocations, storeText, cache, command, files, written, trace>>

\* runPushAndVerify, line 303: the loop ran out
PollTimeout ==
    /\ pc = "poll"
    /\ polls = MaxPolls
    /\ report' = "timeout"
    /\ pc' = StepAfter(command, "poll")
    /\ UNCHANGED <<collectorVars, invocations, storeText, cache, command, files, written, trace, outcome, polls>>

PipelineNext ==
    \/ CheckDns
    \/ SetupServer
    \/ SetupSecrets
    \/ Push
    \/ Poll
    \/ PollTimeout

PipelineSpec == PipelineInit /\ [][PipelineNext]_vars

\* the process keeps running its code: a step that can be taken is taken
PipelineFairSpec == PipelineSpec /\ WF_vars(PipelineNext)

----------------------------------------------------------------------------
(* The Generator on its own: generateFiles in a directory that already     *)
(* holds files at some of the output paths.                                *)

GenConfigs ==
    {EarlierConfig(DirNext),
     [EarlierConfig(DirNext) EXCEPT
        !.project = [@ EXCEPT !.type = "flask", !.language = "python", !.port = 5000,
                              !.buildCmd = "",
                              !.startCmd = "gunicorn -w 4 -b 0.0.0.0:5000 app:app"]],
     [EarlierConfig(DirNext) EXCEPT
        !.project = [@ EXCEPT !.type = "react-spa", !.port = 80, !.startCmd = ""]]}

OutputPaths ==
    {"Dockerfile", ".dockerignore", "docker-compose.yml", ".github/workflows/deploy.yml",
     "nginx.conf", "server-init.sh"}

HandWritten == <<"written by hand">>

\* what the directory holds before the call: files at some output paths, written by hand
\* or by an earlier run for another config, and backups left by an earlier run
GenDirs ==
    {[p \in existing \cup stale |->
         IF p \in stale THEN <<"older backup">>
         ELSE IF earlier /\ p \in DOMAIN writeAll(NoFiles, EarlierConfig(DirNext), 1)
         THEN writeAll(NoFiles, EarlierConfig(DirNext), 1)[p]
         ELSE HandWritten] :
        existing \in SUBSET OutputPaths,
        stale \in SUBSET {BackupPath("Dockerfile"), BackupPath("server-init.sh")},
        earlier \in BOOLEAN}

GeneratorInit ==
    /\ pc = "generate"
    /\ command = "init"
    /\ dir = DirNext
    /\ detection = detectProject(DirNext)
    /\ config \in GenConfigs
    /\ files \in GenDirs
    /\ written = <<>>
    /\ generated = <<>>
    /\ choice = NoChoice
    /\ picked = "none"
    /\ store = [servers |-> NoFiles, projects |-> NoFiles]
    /\ cache = <<>>
    /\ action = "confirm"
    /\ added = NoFiles
    /\ caller = "reviewLoop"
    /\ path = <<"collect-project", "collect-server", "collect-domain", "collect-secrets",
                "collect-branches", "review">>
    /\ collected = config
    /\ trace = <<>>
    /\ outcome = NoOutcome
    /\ polls = 0
    /\ report = "none"
    /\ invocations = NoInvocations
    /\ storeText = "json"

\* mutant: generateFiles returns to runInit after its first writeTemplate call
WriteTemplateReturnsEarly ==
    /\ pc = "generate"
    /\ Len(written) < Len(generateFiles(config))
    /\ LET p == generateFiles(config)[Len(written) + 1]
           r == writeTemplate(files, TemplateFor(config, p), p, buildTemplateVars(config))
       IN  /\ files' = r.files
           /\ written' = Append(written, r.entry)
           /\ pc' = "save-record"
           /\ generated' = generateFiles(config)
    /\ UNCHANGED <<dir, detection, config, choice, picked, store, cache, action, added, caller,
                   path, collected, command, trace, outcome, polls, report, invocations,
                   storeText>>

\* generateFiles, lines 16-63: the next writeTemplate call; after the last one the list is
\* returned
WriteTemplate ==
    /\ pc = "generate"
    /\ Len(written) < Len(generateFiles(config))
    /\ LET p == generateFiles(config)[Len(written) + 1]
           r == writeTemplate(files, TemplateFor(config, p), p, buildTemplateVars(config))
       IN  /\ files' = r.files
           /\ written' = Append(written, r.entry)
           /\ IF Len(written) + 1 = Len(generateFiles(config))
              THEN pc' = "save-record" /\ generated' = generateFiles(config)
              ELSE UNCHANGED <<pc, generated>>
    /\ UNCHANGED <<dir, detection, config, choice, picked, store, cache, action, added, caller,
                   path, collected, command, trace, outcome, polls, report, invocations,
                   storeText>>

GeneratorSpec == GeneratorInit /\ [][WriteTemplate]_vars

----------------------------------------------------------------------------
(* runInit from generateFiles on (lines 121-126), in a directory and with  *)
(* a store that earlier runs may have written to.  Any call of the file    *)
(* system inside generateFiles can throw; nothing in runInit catches.      *)

\* the store before the run: no project logged yet, or the log of earlier inits
RunInitStores ==
    {EmptyStore, [servers |-> NoFiles, projects |-> EarlierProjects(DirNext)]}

\* the cache before the run: absent, or written by an earlier init of the directory
RunInitCaches == {<<>>, <<EarlierConfig(DirNext)>>}

RunInitInit ==
    /\ pc = "generate"
    /\ command = "init"
    /\ dir = DirNext
    /\ detection = detectProject(DirNext)
    /\ config \in GenConfigs
    /\ files \in GenDirs
    /\ written = <<>>
    /\ generated = <<>>
    /\ choice = NoChoice
    /\ picked = "none"
    /\ store \in RunInitStores
    /\ cache \in RunInitCaches
    /\ action = "confirm"
    /\ added = NoFiles
    /\ caller = "reviewLoop"
    /\ path = <<"collect-project", "collect-server", "collect-domain", "collect-secrets",
                "collect-branches", "review">>
    /\ collected = config
    /\ trace = <<>>
    /\ outcome = NoOutcome
    /\ polls = 0
    /\ report = "none"
    /\ invocations = NoInvocations
    /\ storeText = "json"

\* generateFiles, lines 16-63: the next writeTemplate call throws, in readTemplate,
\* copyFileSync or mkdirSync (the directory is as before) or in writeFileSync (the backup,
\* if one was due, is made and the file is not written); the exception ends runInit
WriteTemplateThrows ==
    /\ pc = "generate"
    /\ Len(written) < Len(generateFiles(config))
    /\ LET p == generateFiles(config)[Len(written) + 1]
       IN  \/ UNCHANGED files
           \/ /\ p \in DOMAIN files
              /\ files' = WriteFile(files, BackupPath(p), files[p])
    /\ pc' = "failed"
    /\ UNCHANGED <<dir, detection, config, choice, picked, store, cache, generated, action, added,
                   caller, path, collected, command, written, trace, outcome, polls, report,
                   invocations, storeText>>

RunInitNext ==
    \/ WriteTemplate
    \/ WriteTemplateThrows
    \/ SaveRecord
    \/ SaveCache

RunInitSpec == RunInitInit /\ [][RunInitNext]_vars

----------------------------------------------------------------------------
(* The Detector on its own: detectProject over families of directories     *)

\* the entries of names, in that order, that are in chosen
Listed(names, chosen) == SelectSeq(names, LAMBDA f : f \in chosen)

DirOf(listing, manifest, deps, runPy, sources, env) ==
    [base |-> <<"w", "e", "b">>, listing |-> listing, manifest |-> manifest, deps |-> deps,
     runPy |-> runPy, sources |-> sources, env |-> env, workflows |-> FALSE, cached |-> FALSE]

PyMarkers == {"requirements.txt", "pyproject.toml", "Pipfile"}

PyNames ==
    <<"Pipfile", "app.py", "main.py", "manage.py", "package.json", "pyproject.toml",
      "requirements.txt">>

ManifestContents ==
    {{"requests"}, {"Flask==2.3"}, {"Django>=4", "Flask==2.3"}, {"FastAPI", "Django>=4"},
     {"django-flask"}}

\* Python markers, fallback files and package.json in every combination
PyDirs ==
    UNION {{DirOf(Listed(PyNames, present), m, {}, "absent", NoFiles, NoFiles) :
               m \in [present \cap PyMarkers -> ManifestContents]} :
           present \in SUBSET {PyNames[i] : i \in 1..Len(PyNames)}}

NodePackages == {"@nestjs/core", "next", "nuxt", "nuxt3", "vue", "react", "express"}

NodeDirs ==
    {DirOf(<<"package.json">>, NoFiles, deps, "absent", NoFiles, NoFiles) :
        deps \in SUBSET NodePackages}

\* per pattern, the number its first match captures: \d{4,5}, so 0000 reads as 0
Captures == [1..3 -> {NoMatch, 0, 4500, 8080}]

LaterCaptures == {<<7000, NoMatch, NoMatch>>, <<NoMatch, NoMatch, 9000>>}

\* a first and a later candidate file, each absent or with its captures
SourcesOf(first, later) ==
    UNION {{[f \in ({first} \cap a) \cup ({later} \cap b) |->
                IF f = first THEN c1 ELSE c2] : c1 \in Captures, c2 \in LaterCaptures} :
           a \in SUBSET {first}, b \in SUBSET {later}}

\* the top-level entries that hold the source files
SourceEntries(sources) ==
    {IF f \in {"src/main.ts", "src/index.ts"} THEN "src" ELSE f : f \in DOMAIN sources}

PortNames ==
    <<"Pipfile", "app.js", "app.py", "config.py", "package.json", "requirements.txt", "run.py",
      "src">>

\* a flask project with and without the factory run.py, a Pipfile project, a next project
\* and a directory without markers, each with source files that mention ports
PortDirs ==
    {DirOf(Listed(PortNames, {"requirements.txt"} \cup SourceEntries(s)
                             \cup (IF r = "absent" THEN {} ELSE {"run.py"})),
           [f \in {"requirements.txt"} |-> {"Flask==2.3"}], {}, r, s, NoFiles) :
        s \in SourcesOf("app.py", "config.py"), r \in {"absent", "plain", "factory"}}
    \cup {DirOf(Listed(PortNames, markers \cup SourceEntries(s)),
                [f \in markers |-> {"requests"}], {}, "absent", s, NoFiles) :
             s \in SourcesOf("app.py", "config.py"), markers \in {{"Pipfile"}, {}}}
    \cup {DirOf(Listed(PortNames, {"package.json"} \cup SourceEntries(s)),
                NoFiles, {"next"}, "absent", s, NoFiles) :
             s \in SourcesOf("src/index.ts", "app.js")}

EnvContent(f) ==
    CASE f = ".env" -> << <<"K", "=", "1">> >>
      [] f = ".env.example" -> << <<"#", "x">>, <<"E", "=">> >>
      [] f = ".env.production" -> << <<"P", "=", "2">>, <<>> >>

\* the env files in every subset and in every order readdir can list them
EnvDirs ==
    {DirOf(l, NoFiles, {}, "absent", NoFiles, [f \in {l[i] : i \in 1..Len(l)} |-> EnvContent(f)]) :
        l \in {s \in UNION {[1..n -> EnvNames] : n \in 0..3} :
                  \A i, j \in 1..Len(s) : i # j => s[i] # s[j]}}

DetectDirs == PyDirs \cup NodeDirs \cup PortDirs \cup EnvDirs

DetectInit ==
    /\ pc = "detect"
    /\ dir \in DetectDirs
    /\ detection = NoDetection
    /\ config = NoConfig
    /\ choice = NoChoice
    /\ picked = "none"
    /\ store = [servers |-> NoFiles, projects |-> NoFiles]
    /\ cache = <<>>
    /\ generated = <<>>
    /\ action = "none"
    /\ added = NoFiles
    /\ caller = "collectConfig"
    /\ path = <<>>
    /\ collected = NoConfig
    /\ command = "init"
    /\ files = NoFiles
    /\ written = <<>>
    /\ trace = <<>>
    /\ outcome = NoOutcome
    /\ polls = 0
    /\ report = "none"
    /\ invocations = NoInvocations
    /\ storeText = "json"

DetectSpec == DetectInit /\ [][Detect]_vars

----------------------------------------------------------------------------
(* Two invocations of the tool by the same user: each makes its updates of *)
(* the store file in order, and each update is three file-system steps:    *)
(* readFileSync (load), the open of writeFileSync, which truncates the     *)
(* file, and its write.  Nothing orders the steps of one invocation        *)
(* against the steps of the other.                                         *)

Invocations == {1, 2}

HostB == <<"1", "0", ".", "2">>

StoreLabels == {HostA, HostB}

StoreProjects == {projectNameOf(DirFlask.base), projectNameOf(DirNext.base)}

\* the updates invocation i can make: the values differ between the invocations
ServerUpdates(i) ==
    {[op |-> "saveServer", name |-> l,
      server |-> [host |-> l, user |-> "root", sshKeyPath |-> "~/.ssh/id_rsa",
                  deployDir |-> IF i = 1 THEN "/opt/apps" ELSE "/srv/www"],
      type |-> "null"] : l \in StoreLabels}

ProjectUpdates(i) ==
    {[op |-> "saveProjectRecord", name |-> n, server |-> NoServer,
      type |-> IF i = 1 THEN "flask" ELSE "nextjs"] : n \in StoreProjects}

\* what one invocation writes, in order: init with "add new" saves a profile and then the
\* project record; a cancelled review leaves the profile only; init with a saved profile
\* or a config file writes the project record only
TodoLists(i) ==
    {<<u>> : u \in ServerUpdates(i) \cup ProjectUpdates(i)}
    \cup {<<s, p>> : s \in ServerUpdates(i), p \in ProjectUpdates(i)}

\* the store the invocations find
StoreBefore ==
    {EmptyStore,
     [servers |-> [l \in {HostA} |-> [host |-> HostA, user |-> "root",
                                      sshKeyPath |-> "~/.ssh/id_rsa", deployDir |-> "/opt"]],
      projects |-> EarlierProjects(DirNext)]}

StoreInit ==
    /\ pc = "done"
    /\ dir = DirNext
    /\ detection = NoDetection
    /\ config = NoConfig
    /\ choice = NoChoice
    /\ picked = "none"
    /\ store \in StoreBefore
    /\ cache = <<>>
    /\ generated = <<>>
    /\ action = "none"
    /\ added = NoFiles
    /\ caller = "collectConfig"
    /\ path = <<>>
    /\ collected = NoConfig
    /\ command = "init"
    /\ files = NoFiles
    /\ written = <<>>
    /\ trace = <<>>
    /\ outcome = NoOutcome
    /\ polls = 0
    /\ report = "none"
    /\ \E t1 \in TodoLists(1), t2 \in TodoLists(2) :
          invocations = [i \in Invocations |->
                            [pc |-> "idle", todo |-> IF i = 1 THEN t1 ELSE t2,
                             config |-> EmptyStore, done |-> <<>>]]
    /\ storeText = "json"

storeFrame ==
    <<pc, dir, detection, config, choice, picked, cache, generated, action, added, caller, path,
      collected, command, files, written, outcome, polls, report>>

\* loadGlobalConfig, lines 15-21: JSON.parse throws on a text that is not JSON, and nothing
\* between there and the top of the command catches it
Load(i) ==
    /\ invocations[i].pc = "idle"
    /\ invocations[i].todo # <<>>
    /\ invocations' =
          IF storeText = "json"
          THEN [invocations EXCEPT ![i].pc = "loaded", ![i].config = loadGlobalConfig(store)]
          ELSE [invocations EXCEPT ![i].pc = "crashed"]
    /\ trace' = Append(trace, <<i, "load", Head(invocations[i].todo)>>)
    /\ UNCHANGED <<store, storeText, storeFrame>>

\* saveGlobalConfig, line 25: writeFileSync opens the file for writing, which empties it
Open(i) ==
    /\ invocations[i].pc = "loaded"
    /\ invocations' = [invocations EXCEPT ![i].pc = "writing"]
    /\ store' = EmptyStore
    /\ storeText' = "empty"
    /\ trace' = Append(trace, <<i, "open", Head(invocations[i].todo)>>)
    /\ UNCHANGED storeFrame

\* saveGlobalConfig, line 25: writeFileSync writes the text from the start of the file.  On
\* a file that another writer filled since the open, the text left is this one when it is at
\* least as long as the other, and this one followed by the other's tail (no JSON) otherwise.
Write(i) ==
    /\ invocations[i].pc = "writing"
    /\ LET u == Head(invocations[i].todo)
           text == applyUpdate(configWritten(invocations[i].config, store), u)
       IN  /\ \/ store' = text /\ storeText' = "json"
              \/ storeText # "empty" /\ store' = EmptyStore /\ storeText' = "garbled"
           /\ invocations' =
                 [invocations EXCEPT ![i].todo = Tail(@), ![i].done = Append(@, u),
                                     ![i].pc = IF Len(invocations[i].todo) = 1 THEN "done"
                                               ELSE "idle"]
           /\ trace' = Append(trace, <<i, "write", u>>)
    /\ UNCHANGED storeFrame

StoreNext == \E i \in Invocations : Load(i) \/ Open(i) \/ Write(i)

StoreSpec == StoreInit /\ [][StoreNext]_vars

----------------------------------------------------------------------------
(* Properties *)

Sections == {"project", "server", "domain", "secrets", "branches", "registry"}

CollectorOrder ==
    <<"collect-project", "collect-server", "collect-domain", "collect-secrets", "collect-branches",
      "review">>

EditStates == {"collect-project", "collect-server", "collect-domain"}

\* the function f with x mapped to v
Overwrite(f, x, v) == [y \in DOMAIN f \cup {x} |-> IF y = x THEN v ELSE f[y]]

\* C1: in the review loop every section of the config holds the result of its most recent
\* collect step (the registry stays ghcr.io), and an edit that returns to the review changes
\* only the section named by the action, to the result of the re-run collect step.
C1_EditReplacesOwnSection ==
    /\ [](caller = "reviewLoop" =>
            config = [collected EXCEPT !.registry = "ghcr.io"])
    /\ [][(caller = "reviewLoop" /\ pc \in EditStates /\ pc' = "review") =>
            /\ \A sec \in Sections \ {action} : config'[sec] = config[sec]
            /\ config'[action] = collected'[action]]_vars

\* C1 witness: edit-server has returned to the review with another deploy directory than the
\* first collect-server gave, and the project and domain sections are those collected before.
C1_Witness ==
    /\ pc = "review"
    /\ action = "server"
    /\ config.server.deployDir = "/srv/www"
    /\ config.domain.enabled
    /\ config.project.type = "django"

\* C2: cancel exits the process: nothing runs afterwards, the generated-files list is empty
\* and the per-project cache and the project log are as the invocation found them.
C2_CancelWritesNothing ==
    /\ [](action = "cancel" => pc = "exited")
    /\ [](pc = "exited" =>
            /\ generated = <<>>
            /\ cache = InitialCache(dir)
            /\ store.projects = InitialProjects(dir))
    /\ [][pc # "exited"]_vars

\* C2 witness: a cancelled run in a directory that holds an earlier cache, after an edit
\* had saved a second profile.
C2_Witness ==
    /\ pc = "exited"
    /\ cache # <<>>
    /\ DOMAIN added = {HostA, ADD_NEW}

\* C3: collectConfig enters the five collect states in order, each once, then the review;
\* from then on the only steps are review -> collect-project / collect-server /
\* collect-domain -> review, review -> confirm (the collector returns) and review -> cancel
\* (the process ends).
C3_CollectorStateOrder ==
    /\ [](pc # "detect" =>
            /\ Len(path) \in 1..Len(CollectorOrder)
            /\ path = SubSeq(CollectorOrder, 1, Len(path))
            /\ caller = "collectConfig" => pc = path[Len(path)] /\ pc # "review"
            /\ caller = "reviewLoop" => path = CollectorOrder)
    /\ [][(caller = "reviewLoop" /\ pc \in EditStates \cup {"review"} /\ pc' # pc) =>
            \/ pc = "review" /\ pc' \in EditStates \cup {"generate", "exited"}
            \/ pc \in EditStates /\ pc' = "review"]_vars
    /\ [][pc # "exited"]_vars

\* C3 witness: an edit of the domain went from the review into collect-domain and back.
C3_Witness ==
    /\ pc = "review"
    /\ action = "domain"
    /\ path = CollectorOrder

\* C4: from the first review on, the secrets and the branches of the config never change;
\* they are the results of the one collect-secrets and the one collect-branches step, and
\* every selected secret is an environment key the Detector found.
C4_SecretsAndBranchesFixed ==
    /\ [](caller = "reviewLoop" =>
            /\ config.secrets = collected.secrets
            /\ config.branches = collected.branches
            /\ \A i \in 1..Len(config.secrets) : Includes(detection.envKeys, config.secrets[i]))
    /\ [][caller = "reviewLoop" =>
            config'.secrets = config.secrets /\ config'.branches = config.branches]_vars

\* C4 witness: the project was edited in a config with a selected secret and a staging branch.
C4_Witness ==
    /\ pc = "review"
    /\ action = "project"
    /\ config.secrets # <<>>
    /\ config.branches.staging = "develop"

\* C5 as stated: a profile added through add-new in this invocation stays in the store
\* under its label from then on, so also when the review is cancelled.
C5_AddedProfileStays ==
    [][\A l \in DOMAIN added :
          l \in DOMAIN store'.servers /\ store'.servers[l] = added[l]]_vars

\* C5 amended: at every moment after an add-new, so at the first review and after a cancel,
\* the store holds under every label used in this invocation the profile most recently
\* entered under that label; no write is rolled back.
C5_LatestAddedProfileStored ==
    \A l \in DOMAIN added : l \in DOMAIN store.servers /\ store.servers[l] = added[l]

\* C5 witness: the review was cancelled after profiles were added under two labels, one of
\* them in the first collect-server and one through edit-server.
C5_Witness ==
    /\ pc = "exited"
    /\ DOMAIN added = {HostA, ADD_NEW}
    /\ added[HostA] # added[ADD_NEW]

\* C6: the add-new path of collect-server writes the entered profile under the given label,
\* replacing whatever the label held, and leaves every other entry of the store alone.
C6_AddNewOverwrites ==
    [][(pc = "collect-server" /\ choice # NoChoice /\ choice' = NoChoice
          /\ (DOMAIN store.servers = {} \/ choice = ADD_NEW)) =>
        \E l \in DOMAIN added' :
            /\ added' = Overwrite(added, l, config'.server)
            /\ store'.servers = Overwrite(store.servers, l, config'.server)
            /\ store'.projects = store.projects]_vars

\* C6 witness: the operator took add-new while both labels they can give are already in the
\* store, after this invocation wrote one of them: the save that follows replaces a profile.
C6_Witness ==
    /\ pc = "collect-server"
    /\ picked = "new"
    /\ choice = ADD_NEW
    /\ DOMAIN store.servers = {HostA, ADD_NEW}
    /\ added # NoFiles

\* C7 as stated: when the operator picks a saved profile from the list, only the deploy
\* directory is asked, host, user and key path are the stored ones and the store is not
\* written.
C7_SavedProfileOnlyDeployDir ==
    [][(pc = "collect-server" /\ picked = "saved" /\ choice' = NoChoice) =>
        /\ ServerQuestions(store.servers, choice) = <<"deployDir">>
        /\ config'.server.host = store.servers[choice].host
        /\ config'.server.user = store.servers[choice].user
        /\ config'.server.sshKeyPath = store.servers[choice].sshKeyPath
        /\ store' = store]_vars

\* C8 as stated: the config the Collector returns has a positive port.
C8_PortPositive == pc = "generate" => config.project.port > 0

\* C9: from the first review on, an enabled domain has a non-empty name and a disabled one
\* is the fixed record (enabled false, name empty, https false).
C9_DomainNameNonEmpty ==
    caller = "reviewLoop" =>
        /\ config.domain.enabled => config.domain.name # <<>>
        /\ ~config.domain.enabled =>
              config.domain = [enabled |-> FALSE, name |-> <<>>, https |-> FALSE]

\* C9 witness: edit-domain has returned an enabled domain to the review.
C9_Witness ==
    /\ pc = "review"
    /\ action = "domain"
    /\ config.domain.enabled
    /\ ~config.domain.https

\* C10 as stated: the returned archetype is one of the eight kinds and, when port, build
\* command and start command are the offered defaults, they are that archetype's entries of
\* PROJECT_DEFAULTS.
C10_DefaultsFollowArchetype ==
    pc = "generate" =>
        /\ config.project.type \in ProjectType
        /\ (/\ config.project.port = detection.port
            /\ config.project.buildCmd = detection.buildCmd
            /\ config.project.startCmd = detection.startCmd) =>
              /\ config.project.port = PROJECT_DEFAULTS[config.project.type].port
              /\ config.project.buildCmd = PROJECT_DEFAULTS[config.project.type].buildCmd
              /\ config.project.startCmd = PROJECT_DEFAULTS[config.project.type].startCmd

----------------------------------------------------------------------------
(* Properties of the pipeline steps *)

\* C11: in the full pipeline the DNS step never raises: whether the domain is disabled, the
\* A records include the server host, do not include it, or the lookup fails, the step
\* returns and the remote server initialization is the step that runs next.
C11_DnsNonFatal ==
    [][(command = "all" /\ pc = "check-dns") =>
          /\ pc' = "setup-server"
          /\ trace'[Len(trace')] \in {"check-dns", "dns.resolve4"}]_vars

\* C11 witness: the full pipeline stands at the server initialization after a DNS lookup
\* that failed.
C11_Witness ==
    /\ command = "all"
    /\ pc = "setup-server"
    /\ outcome = Call("dns.resolve4", "lookup-error", 0)

\* C12: the setup-server step goes on only when the remote script closed with exit code 0;
\* on any other exit code, an exec error or a connection error the step fails, nothing runs
\* after a failed step, and so secret provisioning and push-and-verify are never started.
C12_RemoteInitNeedsExitZero ==
    /\ [][(pc = "setup-server" /\ pc' # pc) =>
            /\ pc' # "failed" => outcome' = Call("ssh", "close", 0)
            /\ (outcome' \in SshOutcomes /\ outcome' # Call("ssh", "close", 0)) =>
                  pc' = "failed"]_vars
    /\ [][pc # "failed"]_vars
    /\ [](pc = "failed" /\ outcome \in SshOutcomes =>
            /\ ~Includes(trace, "setup-secrets")
            /\ ~Includes(trace, "push-and-verify"))

\* C12 witness: the full pipeline has failed at the server initialization because the
\* remote script exited with code 1.
C12_Witness ==
    /\ command = "all"
    /\ pc = "failed"
    /\ outcome = Call("ssh", "close", 1)
    /\ trace[Len(trace)] = "ssh.connect"

\* C13: the verification loop makes at most MaxPolls queries, one at a time; it reports
\* success or failure at the first query that shows a completed run, unavailable at the
\* first query that errors, and timeout exactly when MaxPolls queries came back without
\* error and without a completed run; once something is reported no further query is made
\* and the report stays; and the loop always ends with a report.
C13_PollLoopTerminates ==
    /\ [](polls \in 0..MaxPolls)
    /\ [](pc = "poll" =>
            /\ report = "none"
            /\ polls > 0 => outcome.event \in {"no-run", "in_progress"})
    /\ [](report = "success" => outcome.event = "completed-success")
    /\ [](report = "failure" => outcome.event = "completed-failure")
    /\ [](report = "unavailable" => outcome.event = "error")
    /\ [](report = "timeout" =>
            polls = MaxPolls /\ outcome.event \in {"no-run", "in_progress"})
    /\ [](report \in {"none", "success", "failure", "unavailable", "timeout"})
    /\ [][polls' # polls => pc = "poll" /\ polls' = polls + 1]_vars
    /\ [][report # "none" => report' = report /\ polls' = polls]_vars
    /\ (pc = "poll") ~> (report # "none")

\* C13 witness: the loop has reported timeout after MaxPolls queries.
C13_Witness ==
    /\ report = "timeout"
    /\ polls = MaxPolls
    /\ pc = "done"

\* C14 as stated: in the full pipeline the secret provisioning step never aborts the run:
\* also when installing gh or logging in fails, push-and-verify is what runs next.
C14_SecretsNeverAbort ==
    [][(command = "all" /\ pc = "setup-secrets") => pc' = "push"]_vars

\* C15: check-dns, setup-server and setup-secrets in a directory without a cache, and
\* setup-server in a directory without server-init.sh, fail at once: no DNS lookup, no
\* secure-shell connection, no call of gh, no prompt.
C15_MissingPreconditionsFatal ==
    [][(/\ pc \in {"check-dns", "setup-server", "setup-secrets"}
        /\ \/ cache = <<>>
           \/ pc = "setup-server" /\ "server-init.sh" \notin DOMAIN files) =>
          /\ pc' = "failed"
          /\ trace' = Append(trace, pc)
          /\ outcome' = outcome]_vars

\* C15 witness: setup-server has failed in a directory that holds a cache but no
\* server-init.sh, having called nothing.
C15_Witness ==
    /\ command = "setup-server"
    /\ pc = "failed"
    /\ cache # <<>>
    /\ "server-init.sh" \notin DOMAIN files
    /\ trace = <<"setup-server">>

----------------------------------------------------------------------------
(* Properties of the Generator *)

\* C16: every writeTemplate call leaves the rendered template at its path; when a file was
\* there before the call, the backup path holds exactly that earlier content afterwards and
\* the entry says backedUp; when none was there, the backup path is as it was (none is
\* created) and the entry says not backedUp; no other file is touched.
C16_BackupBeforeOverwrite ==
    [][written' # written =>
        LET e == written'[Len(written')]
            p == e.path
            b == BackupPath(e.path)
        IN  /\ written' = Append(written, e)
            /\ files'[p] = replacePlaceholders(TemplateFor(config, p), buildTemplateVars(config))
            /\ IF p \in DOMAIN files
               THEN e.backedUp /\ b \in DOMAIN files' /\ files'[b] = files[p]
               ELSE /\ ~e.backedUp
                    /\ b \in DOMAIN files' <=> b \in DOMAIN files
                    /\ b \in DOMAIN files => files'[b] = files[b]
            /\ \A q \in (DOMAIN files \cup DOMAIN files') \ {p, b} :
                  q \in DOMAIN files /\ q \in DOMAIN files' /\ files'[q] = files[q]]_vars

\* C16 witness: the run is through; the hand-written Dockerfile went to the backup path,
\* replacing an older backup, and .dockerignore, which did not exist, got no backup.
C16_Witness ==
    /\ pc = "save-record"
    /\ written[1] = [path |-> "Dockerfile", backedUp |-> TRUE]
    /\ files[BackupPath("Dockerfile")] = HandWritten
    /\ written[2] = [path |-> ".dockerignore", backedUp |-> FALSE]
    /\ BackupPath(".dockerignore") \notin DOMAIN files
    /\ BackupPath("server-init.sh") \in DOMAIN files

----------------------------------------------------------------------------
(* Properties of the Detector *)

Present(d, f) == Includes(d.listing, f)

HasPyMarker(d) == \E f \in PyMarkers : Present(d, f)

\* the words of every Python marker file in the directory
AllManifestWords(d) == UNION {d.manifest[f] : f \in {g \in PyMarkers : Present(d, g)}}

\* the words of requirements.txt, or of pyproject.toml when there is no requirements.txt
ConsultedManifestWords(d) ==
    IF Present(d, "requirements.txt") THEN d.manifest["requirements.txt"]
    ELSE IF Present(d, "pyproject.toml") THEN d.manifest["pyproject.toml"]
    ELSE {}

\* the first that applies: content fastapi, django, flask; then manage.py, app.py, main.py
PythonLadder(words, d) ==
    IF \E w \in words : WordIncludes(ToLower(w), "fastapi") THEN "fastapi"
    ELSE IF \E w \in words : WordIncludes(ToLower(w), "django") THEN "django"
    ELSE IF \E w \in words : WordIncludes(ToLower(w), "flask") THEN "flask"
    ELSE IF Present(d, "manage.py") THEN "django"
    ELSE IF Present(d, "app.py") THEN "flask"
    ELSE IF Present(d, "main.py") THEN "fastapi"
    ELSE "null"

\* C17 as stated: with any Python marker present the language is python, also beside a
\* package.json, and the archetype is the first that applies of the content of the
\* directory's dependency manifests (its marker files) naming fastapi, django, flask, then
\* the file names manage.py, app.py, main.py; manifest content always beats the file names.
C17_PythonFirstMatch ==
    (pc # "detect" /\ HasPyMarker(dir)) =>
        /\ detection.language = "python"
        /\ detection.type = PythonLadder(AllManifestWords(dir), dir)

\* C17 amended: the same, where the manifest content consulted is that of requirements.txt,
\* or of pyproject.toml when there is no requirements.txt; a Pipfile's content is not read.
C17_PythonFirstMatchConsulted ==
    (pc # "detect" /\ HasPyMarker(dir)) =>
        /\ detection.language = "python"
        /\ detection.type = PythonLadder(ConsultedManifestWords(dir), dir)

\* C17 witness: beside a package.json, a requirements.txt naming a package whose name
\* contains both django and flask, with app.py present: the content decides, django first.
C17_Witness ==
    /\ pc # "detect"
    /\ Present(dir, "package.json")
    /\ Present(dir, "requirements.txt")
    /\ dir.manifest["requirements.txt"] = {"django-flask"}
    /\ Present(dir, "app.py")
    /\ ~Present(dir, "manage.py")
    /\ detection.type = "django"

\* the first rule that applies over dependencies and devDependencies
NodeLadder(deps) ==
    IF "@nestjs/core" \in deps THEN "nestjs"
    ELSE IF "next" \in deps THEN "nextjs"
    ELSE IF "nuxt" \in deps \/ "nuxt3" \in deps THEN "nuxtjs"
    ELSE IF "vue" \in deps /\ "nuxt" \notin deps THEN "vue-spa"
    ELSE IF "react" \in deps /\ "next" \notin deps THEN "react-spa"
    ELSE "null"

NoPortMatch(d) == \A f \in DOMAIN d.sources : \A k \in 1..3 : d.sources[f][k] = NoMatch

\* C18: with package.json and no Python marker the language is node and the archetype is
\* the first rule that applies, for every combination of the packages; a detected archetype
\* gives build and start command of its PROJECT_DEFAULTS entry, and its port unless a
\* source file overrides it.
C18_NodeFirstMatch ==
    (pc # "detect" /\ Present(dir, "package.json") /\ ~HasPyMarker(dir)) =>
        /\ detection.language = "node"
        /\ detection.type = NodeLadder(dir.deps)
        /\ detection.type \in ProjectType =>
              /\ detection.buildCmd = PROJECT_DEFAULTS[detection.type].buildCmd
              /\ detection.startCmd = PROJECT_DEFAULTS[detection.type].startCmd
              /\ NoPortMatch(dir) => detection.port = PROJECT_DEFAULTS[detection.type].port

\* C18 witness: next, react and vue together are classified nextjs, with its defaults.
C18_Witness ==
    /\ pc # "detect"
    /\ dir.deps = {"next", "react", "vue"}
    /\ detection.type = "nextjs"
    /\ detection.port = 3000
    /\ detection.startCmd = "npm start"

\* the places <<file, pattern>> of the language's candidate list where a port is captured
PortMatches(d, language) ==
    {m \in (1..Len(PortCandidates(language))) \X (1..3) :
        /\ PortCandidates(language)[m[1]] \in DOMAIN d.sources
        /\ d.sources[PortCandidates(language)[m[1]]][m[2]] # NoMatch}

\* the first of them, in file order, then pattern order
FirstPortMatch(d, language) ==
    CHOOSE m \in PortMatches(d, language) :
        \A n \in PortMatches(d, language) : m[1] < n[1] \/ (m[1] = n[1] /\ m[2] <= n[2])

CapturedPort(d, language) ==
    d.sources[PortCandidates(language)[FirstPortMatch(d, language)[1]]]
             [FirstPortMatch(d, language)[2]]

DefaultPort(type) == IF type \in ProjectType THEN PROJECT_DEFAULTS[type].port ELSE 3000

DefaultBuildCmd(type) == IF type \in ProjectType THEN PROJECT_DEFAULTS[type].buildCmd ELSE ""

\* the archetype's start command (for a flask project with a factory run.py, with run:app)
DefaultStartCmd(d, type) ==
    IF type \notin ProjectType THEN ""
    ELSE IF type = "flask" /\ d.runPy = "factory" THEN "gunicorn -w 4 -b 0.0.0.0:5000 run:app"
    ELSE PROJECT_DEFAULTS[type].startCmd

\* C19 as stated: the port is what the first match captures, in file order then pattern
\* order, and the archetype default (3000 without archetype) when nothing matches; build
\* and start command are the archetype's whatever the scan finds.
C19_FirstMatchOverrides ==
    pc # "detect" =>
        /\ detection.port =
              IF PortMatches(dir, detection.language) # {}
              THEN CapturedPort(dir, detection.language)
              ELSE DefaultPort(detection.type)
        /\ detection.buildCmd = DefaultBuildCmd(detection.type)
        /\ detection.startCmd = DefaultStartCmd(dir, detection.type)

\* C19 amended: the same, except that a first match whose digits read as zero (0000) ends
\* the scan without overriding: the port then stays the archetype default.
C19_FirstNonZeroMatchOverrides ==
    pc # "detect" =>
        /\ detection.port =
              IF /\ PortMatches(dir, detection.language) # {}
                 /\ CapturedPort(dir, detection.language) # 0
              THEN CapturedPort(dir, detection.language)
              ELSE DefaultPort(detection.type)
        /\ detection.buildCmd = DefaultBuildCmd(detection.type)
        /\ detection.startCmd = DefaultStartCmd(dir, detection.type)

\* C19 witness: a flask factory project whose app.py matches the second and the third
\* pattern and whose config.py matches too: the port is the second pattern's of app.py.
C19_Witness ==
    /\ pc # "detect"
    /\ detection.type = "flask"
    /\ dir.runPy = "factory"
    /\ DOMAIN dir.sources = {"app.py", "config.py"}
    /\ dir.sources["app.py"] = <<NoMatch, 8080, 4500>>
    /\ detection.port = 8080
    /\ detection.startCmd = "gunicorn -w 4 -b 0.0.0.0:5000 run:app"

EnvPriority == <<".env", ".env.example", ".env.production">>

\* the highest-priority env file present, "null" when there is none
HighestEnvFile(d) ==
    IF \E i \in 1..Len(EnvPriority) : Present(d, EnvPriority[i])
    THEN EnvPriority[CHOOSE i \in 1..Len(EnvPriority) :
                        /\ Present(d, EnvPriority[i])
                        /\ \A j \in 1..(i - 1) : ~Present(d, EnvPriority[j])]
    ELSE "null"

\* C20 as stated: the env file parsed is the highest-priority one present, .env before
\* .env.example before .env.production, in whatever order the listing returns them; with
\* none present there is no env file and the key list is empty.
C20_EnvFilePriority ==
    pc # "detect" =>
        /\ detection.envFile = HighestEnvFile(dir)
        /\ detection.envKeys = IF HighestEnvFile(dir) = "null" THEN <<>>
                               ELSE parseEnvKeys(dir.env[HighestEnvFile(dir)])

----------------------------------------------------------------------------
(* Properties of the shared store file (StoreSpec) *)

\* the positions of the trace at which step was made
StepsAt(step) == {k \in 1..Len(trace) : trace[k][2] = step}

\* no invocation is in the middle of an update
Quiescent == \A i \in Invocations : invocations[i].pc \in {"idle", "done", "crashed"}

\* the updates ran one after the other: each load is followed at once by the open and the
\* write of the same update
OneAfterTheOther ==
    \A k \in StepsAt("load") :
        /\ k + 2 <= Len(trace)
        /\ trace[k + 1] = <<trace[k][1], "open", trace[k][3]>>
        /\ trace[k + 2] = <<trace[k][1], "write", trace[k][3]>>

SameEntry(u, v) == u.op = v.op /\ u.name = v.name

\* st has an entry under the name u writes
Held(st, u) ==
    IF u.op = "saveServer" THEN u.name \in DOMAIN st.servers ELSE u.name \in DOMAIN st.projects

\* st has the entry u writes
Holds(st, u) ==
    IF u.op = "saveServer"
    THEN u.name \in DOMAIN st.servers /\ st.servers[u.name] = u.server
    ELSE u.name \in DOMAIN st.projects
         /\ st.projects[u.name] = [type |-> u.type, lastDeploy |-> "now"]

\* the write at position k is the latest one of its entry
LatestWrite(k) == \A j \in StepsAt("write") : SameEntry(trace[j][3], trace[k][3]) => j <= k

\* exactly two updates were made, by different invocations, and both loads came before
\* either write
BothLoadedFirst ==
    /\ Quiescent
    /\ Cardinality(StepsAt("load")) = 2
    /\ Cardinality(StepsAt("write")) = 2
    /\ trace[1][2] = "load"
    /\ trace[2][2] = "load"
    /\ trace[1][1] # trace[2][1]

\* C21: the store has no protection against concurrent invocations.  When the updates run
\* one after the other, no entry is lost: the store parses, has an entry under every name
\* written, and the latest write of an entry is the entry it has.  When two invocations
\* both load before either writes, the store left (if it parses) is the loaded one with the
\* later writer's entry alone: the earlier writer's entry is in it only if the loaded store
\* had one under that name or the later writer wrote the same name, and it has the earlier
\* writer's value only if the loaded store had.
C21_LostUpdateOnlyWhenInterleaved ==
    /\ (Quiescent /\ OneAfterTheOther) =>
          /\ storeText = "json"
          /\ \A i \in Invocations : invocations[i].pc # "crashed"
          /\ \A k \in StepsAt("write") :
                /\ Held(store, trace[k][3])
                /\ LatestWrite(k) => Holds(store, trace[k][3])
    /\ (BothLoadedFirst /\ storeText = "json") =>
          LET later == trace[Len(trace)]
              earlier == CHOOSE e \in {trace[1], trace[2]} : e[1] # later[1]
              loaded == invocations[later[1]].config
          IN  /\ invocations[earlier[1]].config = loaded
              /\ store = applyUpdate(loaded, later[3])
              /\ Held(store, earlier[3]) =>
                    Held(loaded, earlier[3]) \/ SameEntry(earlier[3], later[3])
              /\ Holds(store, earlier[3]) => Holds(loaded, earlier[3])

\* both invocations loaded before either wrote, both wrote, the store parses, and the name
\* one of them wrote is not in it
C21_Witness ==
    /\ BothLoadedFirst
    /\ storeText = "json"
    /\ \A i \in Invocations : invocations[i].pc = "done"
    /\ \E k \in StepsAt("write") : ~Held(store, trace[k][3])

----------------------------------------------------------------------------
(* Properties of the store within one invocation (Spec) *)

\* the step about to be made calls saveServer: the add-new branch of collectServerConfig
CallsSaveServer ==
    /\ pc = "collect-server"
    /\ choice # NoChoice
    /\ Includes(ServerQuestions(getSavedServers(store), choice), "saveName")

\* f and g agree everywhere except possibly at x, which g has
OnlyEntryChanged(f, g, x) ==
    /\ DOMAIN g = DOMAIN f \cup {x}
    /\ \A y \in DOMAIN f \ {x} : g[y] = f[y]

\* C22: the store is append/overwrite only.  No step of an invocation removes a server
\* label or a project name; a step that calls saveServer(L) changes servers[L] alone, the
\* step that calls saveProjectRecord(N) changes projects[N] alone, and every other step
\* (saved-profile choice, the other collect steps, review, cancel, generation, the cache
\* write) leaves the store as it is.
C22_StoreAppendOverwriteOnly ==
    [][/\ DOMAIN store.servers \subseteq DOMAIN store'.servers
       /\ DOMAIN store.projects \subseteq DOMAIN store'.projects
       /\ CallsSaveServer =>
             /\ \E L \in DOMAIN added' :
                   /\ OnlyEntryChanged(store.servers, store'.servers, L)
                   /\ store'.servers[L] = added'[L]
             /\ store'.projects = store.projects
       /\ pc = "save-record" =>
             /\ OnlyEntryChanged(store.projects, store'.projects, config.project.name)
             /\ store'.projects[config.project.name] =
                   [type |-> config.project.type, lastDeploy |-> "now"]
             /\ store'.servers = store.servers
       /\ (~CallsSaveServer /\ pc # "save-record") => store' = store]_vars

\* an init that added a profile and logged its project has ended, and the store still has
\* a profile and a project record that it did not write
C22_Witness ==
    /\ pc = "done"
    /\ DOMAIN added # {}
    /\ DOMAIN store.servers \ DOMAIN added # {}
    /\ DOMAIN store.projects \ {config.project.name} # {}
    /\ \A n \in DOMAIN store.projects \ {config.project.name} :
          store.projects[n] = InitialProjects(dir)[n]

----------------------------------------------------------------------------
(* Properties of the tail of runInit (RunInitSpec) *)

\* every artifact of the run's config is in the directory with its rendered content
AllArtifactsWritten ==
    \A i \in 1..Len(generateFiles(config)) :
        LET p == generateFiles(config)[i]
        IN  /\ p \in DOMAIN files
            /\ files[p] = replacePlaceholders(TemplateFor(config, p), buildTemplateVars(config))

\* the project log has the record of this run
RecordWritten ==
    /\ config.project.name \in DOMAIN store.projects
    /\ store.projects[config.project.name] =
          [type |-> config.project.type, lastDeploy |-> "now"]

\* C23: in init, persistence strictly follows generation.  The store and the cache never
\* change while generateFiles runs or after it failed; the store is written only once
\* generateFiles has returned the whole list, and the cache only after the store has the
\* record; so a run that is done has every artifact in the directory, server-init.sh
\* included, its record in the log and its config in the cache.
C23_PersistenceFollowsGeneration ==
    /\ [][/\ pc \in {"generate", "failed"} => (store' = store /\ cache' = cache)
          /\ store' # store =>
                /\ generated = generateFiles(config)
                /\ Len(written) = Len(generateFiles(config))
                /\ AllArtifactsWritten
                /\ cache' = cache
          /\ (pc = "save-cache" \/ cache' # cache) =>
                /\ AllArtifactsWritten
                /\ RecordWritten
                /\ store' = store]_vars
    /\ [](pc = "done" =>
             /\ AllArtifactsWritten
             /\ "server-init.sh" \in DOMAIN files
             /\ RecordWritten
             /\ cache = <<config>>)
    /\ [](pc = "failed" => Len(written) < Len(generateFiles(config)) /\ generated = <<>>)

\* a run is done: it wrote its config over the cache of an earlier init, after all its
\* artifacts, one of them over a file that was there
C23_Witness ==
    /\ pc = "done"
    /\ cache = <<config>>
    /\ config # EarlierConfig(DirNext)
    /\ Len(written) = Len(generateFiles(config))
    /\ \E i \in 1..Len(written) : written[i].path = "server-init.sh" /\ written[i].backedUp
    /\ DOMAIN store.projects \ {config.project.name} # {}

====
